---- MODULE Spec2Model ----
(***************************************************************************)
(* The jwt_encode component of tiny-systems/encoding-module                *)
(* (src/components/jwt/encode): the Handle dispatcher of encode.go, the    *)
(* token construction it delegates to golang-jwt/v5 (NewWithClaims,        *)
(* SignedString), and the typed claim getters of claims.go.                *)
(*                                                                         *)
(* Text is a sequence of bytes (0..255).  Go values held in an interface{} *)
(* are records tagged with their dynamic type in field t.                  *)
(***************************************************************************)
EXTENDS Integers, Sequences, FiniteSets, TLC

VARIABLES
    settings,   \* Component.settings (encode.go:74)
    input,      \* the (claims, method, key text) the requests of this run carry
    call,       \* the request-port call in flight: its frame between SignedString and the routing of the result
    last,       \* observation: the most recently completed Handle call, accepted settings messages aside
    prev,       \* observation: the one before it
    doc,        \* the MapClaims document the typed getters are applied to
    got         \* the result of the latest getter call on doc

vars == <<settings, input, call, last, prev, doc, got>>

None == [t |-> "none"]

(***************************************************************************)
(* Bounds of the model.                                                    *)
(***************************************************************************)
\* caller-supplied context values are 1..MaxContext
MaxContext == 2
\* the per-signature random values ecdsa.Sign draws from rand.Reader are 0..MaxNonce
MaxNonce == 1

Contexts == 1..MaxContext
Nonces == 0..MaxNonce

(***************************************************************************)
(* Text.                                                                   *)
(***************************************************************************)
\* the bytes of the string literals the model uses ([]byte(s))
StringBytes ==
    "" :> <<>>
    @@ "alg" :> <<97, 108, 103>>
    @@ "typ" :> <<116, 121, 112>>
    @@ "JWT" :> <<74, 87, 84>>
    @@ "ES256" :> <<69, 83, 50, 53, 54>>
    @@ "ES384" :> <<69, 83, 51, 56, 52>>
    @@ "ES512" :> <<69, 83, 53, 49, 50>>
    @@ "HS256" :> <<72, 83, 50, 53, 54>>
    @@ "HS384" :> <<72, 83, 51, 56, 52>>
    @@ "HS512" :> <<72, 83, 53, 49, 50>>
    @@ "RS256" :> <<82, 83, 50, 53, 54>>
    @@ "RS384" :> <<82, 83, 51, 56, 52>>
    @@ "RS512" :> <<82, 83, 53, 49, 50>>
    @@ "none" :> <<110, 111, 110, 101>>
    @@ "aud" :> <<97, 117, 100>>
    @@ "exp" :> <<101, 120, 112>>
    @@ "iss" :> <<105, 115, 115>>
    @@ "sub" :> <<115, 117, 98>>
    @@ "role" :> <<114, 111, 108, 101>>
    @@ "user1" :> <<117, 115, 101, 114, 49>>
    @@ "api" :> <<97, 112, 105>>
    @@ "abc" :> <<97, 98, 99>>
    @@ "admin" :> <<97, 100, 109, 105, 110>>
    @@ "secret" :> <<115, 101, 99, 114, 101, 116>>
    @@ "pemEC256" :> <<112, 101, 109, 69, 67, 50, 53, 54>>
    @@ "pemEC384" :> <<112, 101, 109, 69, 67, 51, 56, 52>>
    @@ "pemEC521" :> <<112, 101, 109, 69, 67, 53, 50, 49>>
    @@ "pemRSA" :> <<112, 101, 109, 82, 83, 65>>

Bytes(s) == StringBytes[s]

RECURSIVE Digits(_)
\* the decimal digits of a natural number, as ASCII bytes
Digits(n) == IF n < 10 THEN <<48 + n>> ELSE Digits(n \div 10) \o <<48 + (n % 10)>>

(***************************************************************************)
(* Go values (interface{}) a claims document can hold.  A float64 is held  *)
(* in halves: h stands for the number h/2, which float64 represents        *)
(* exactly for every h the model uses.                                     *)
(***************************************************************************)
Str(s) == [t |-> "string", s |-> s]
F64(h) == [t |-> "float64", h |-> h]
JNum(lit) == [t |-> "json.Number", lit |-> lit]
GoInt(i) == [t |-> "int", i |-> i]
Bool(b) == [t |-> "bool", b |-> b]
Nil == [t |-> "nil"]
Arr(a) == [t |-> "[]interface{}", a |-> a]
StrArr(a) == [t |-> "[]string", a |-> a]
Obj(m) == [t |-> "map[string]interface{}", m |-> m]

\* truncation toward zero of n/d (Go's int64(x) conversion, math.Modf's integer part)
Trunc(n, d) == IF n >= 0 THEN n \div d ELSE -((-n) \div d)

(***************************************************************************)
(* encoding/json.Marshal, as Token.SigningString uses it on the header and *)
(* on the claims: object keys in sorted order, compact, values by type.    *)
(***************************************************************************)
\* the object keys of the model in the byte order encoding/json sorts them
SortedKeys == <<"alg", "aud", "exp", "iss", "role", "sub", "typ">>

Quote(s) == <<34>> \o Bytes(s) \o <<34>>

\* strconv's shortest 'f' formatting of the float64 h/2
MarshalFloat(h) ==
    LET a == IF h < 0 THEN -h ELSE h
    IN  (IF h < 0 THEN <<45>> ELSE <<>>) \o Digits(a \div 2)
            \o (IF a % 2 = 1 THEN <<46, 53>> ELSE <<>>)

RECURSIVE JoinComma(_)
JoinComma(ss) ==
    IF ss = <<>> THEN <<>>
    ELSE IF Len(ss) = 1 THEN ss[1]
    ELSE ss[1] \o <<44>> \o JoinComma(Tail(ss))

RECURSIVE MarshalValue(_)
MarshalValue(v) ==
    CASE v.t = "string" -> Quote(v.s)
      [] v.t = "float64" -> MarshalFloat(v.h)
      [] v.t = "bool" -> IF v.b THEN <<116, 114, 117, 101>> ELSE <<102, 97, 108, 115, 101>>
      [] v.t = "nil" -> <<110, 117, 108, 108>>
      [] v.t = "[]interface{}" ->
            <<91>> \o JoinComma([i \in 1..Len(v.a) |-> MarshalValue(v.a[i])]) \o <<93>>

\* MarshalMembers serializing the header fields and the registered claims only
RECURSIVE MarshalMembersRegistered(_, _)
MarshalMembersRegistered(m, keys) ==
    IF keys = <<>> THEN <<>>
    ELSE IF Head(keys) \in DOMAIN m
            /\ Head(keys) \in {"alg", "typ", "exp", "nbf", "iat", "aud", "iss", "sub"}
         THEN <<Quote(Head(keys)) \o <<58>> \o MarshalValue(m[Head(keys)])>>
                  \o MarshalMembersRegistered(m, Tail(keys))
         ELSE MarshalMembersRegistered(m, Tail(keys))

\* the members of a map in sorted key order, each as "key":value
RECURSIVE MarshalMembers(_, _)
MarshalMembers(m, keys) ==
    IF keys = <<>> THEN <<>>
    ELSE IF Head(keys) \in DOMAIN m
         THEN <<Quote(Head(keys)) \o <<58>> \o MarshalValue(m[Head(keys)])>>
                  \o MarshalMembers(m, Tail(keys))
         ELSE MarshalMembers(m, Tail(keys))

\* json.Marshal of a map[string]interface{}
MarshalMap(m) == <<123>> \o JoinComma(MarshalMembers(m, SortedKeys)) \o <<125>>

(***************************************************************************)
(* base64.RawURLEncoding, as Token.EncodeSegment uses it: three bytes to   *)
(* four characters of the URL alphabet, no padding.                        *)
(***************************************************************************)
\* the character of the URL-safe alphabet for a 6-bit value
URLChar(i) ==
    IF i < 26 THEN 65 + i
    ELSE IF i < 52 THEN 97 + (i - 26)
    ELSE IF i < 62 THEN 48 + (i - 52)
    ELSE IF i = 62 THEN 45 ELSE 95

URLAlphabet == {URLChar(i) : i \in 0..63}

\* the 6-bit value of a character of the alphabet
URLValue(c) == CHOOSE i \in 0..63 : URLChar(i) = c

\* base64 encoding: each group of three bytes gives four 6-bit values, a final
\* group of one or two bytes gives two or three (no padding)
Sextets(bs) ==
    [i \in 1..((8 * Len(bs) + 5) \div 6) |->
        LET g == 3 * ((i - 1) \div 4)
            b(k) == IF g + k <= Len(bs) THEN bs[g + k] ELSE 0
        IN  CASE (i - 1) % 4 = 0 -> b(1) \div 4
              [] (i - 1) % 4 = 1 -> (b(1) % 4) * 16 + b(2) \div 16
              [] (i - 1) % 4 = 2 -> (b(2) % 16) * 4 + b(3) \div 64
              [] (i - 1) % 4 = 3 -> b(3) % 64]

EncodeSegment(bs) == LET s == Sextets(bs) IN [i \in 1..Len(s) |-> URLChar(s[i])]

\* base64 decoding: each group of four 6-bit values gives three bytes, a
\* final group of two or three gives one or two
Octets(s) ==
    [i \in 1..((6 * Len(s)) \div 8) |->
        LET g == 4 * ((i - 1) \div 3)
            c(k) == IF g + k <= Len(s) THEN s[g + k] ELSE 0
        IN  CASE (i - 1) % 3 = 0 -> c(1) * 4 + c(2) \div 16
              [] (i - 1) % 3 = 1 -> (c(2) % 16) * 16 + c(3) \div 4
              [] (i - 1) % 3 = 2 -> (c(3) % 4) * 64 + c(4)]

\* base64.RawURLEncoding.DecodeString, on text over the alphabet
DecodeSegment(cs) == Octets([i \in 1..Len(cs) |-> URLValue(cs[i])])

(***************************************************************************)
(* MapClaims and its typed getters (claims.go).  A MapClaims is a function *)
(* from the keys present to the values held.                               *)
(***************************************************************************)
NoError == [is |-> "nil", key |-> ""]

\* newError(fmt.Sprintf("%s is invalid", key), jwt.ErrInvalidType)
\* (claims.go:122-140): wraps ErrInvalidType, the message names the key
newError(key) == [is |-> "ErrInvalidType", key |-> key]

\* json.Number.Float64, i.e. strconv.ParseFloat(lit, 64): the value in
\* halves and whether the literal parsed; the value is 0 when it did not
ParseFloat(lit) ==
    CASE lit = "0" -> [h |-> 0, ok |-> TRUE]
      [] lit = "3" -> [h |-> 6, ok |-> TRUE]
      [] lit = "1.5" -> [h |-> 3, ok |-> TRUE]
      [] OTHER -> [h |-> 0, ok |-> FALSE]

\* time.Unix(sec, nsec): nsec outside [0, 1e9) is carried into sec
TimeUnix(sec, nsec) ==
    IF nsec < 0 THEN [sec |-> sec - 1, nsec |-> nsec + 1000000000]
    ELSE [sec |-> sec, nsec |-> nsec]

\* jwt.NewNumericDate(t): t.Truncate(jwt.TimePrecision), and the package
\* variable TimePrecision is time.Second, which the repository never sets
NewNumericDate(t) == [sec |-> t.sec, nsec |-> 0]

\* newNumericDateFromSeconds (claims.go:117-120) on the float64 h/2:
\* round, frac := math.Modf(f); time.Unix(int64(round), int64(frac*1e9))
newNumericDateFromSeconds(h) ==
    LET round == Trunc(h, 2)
        frac2 == h - 2 * round
    IN  NewNumericDate(TimeUnix(round, Trunc(frac2 * 1000000000, 2)))

\* MapClaims.parseNumericDate (claims.go:49-69)
parseNumericDate(m, key) ==
    IF key \notin DOMAIN m THEN [date |-> None, err |-> NoError]
    ELSE LET v == m[key]
         IN  CASE v.t = "float64" ->
                    IF v.h = 0 THEN [date |-> None, err |-> NoError]
                    ELSE [date |-> newNumericDateFromSeconds(v.h), err |-> NoError]
               [] v.t = "json.Number" ->
                    [date |-> newNumericDateFromSeconds(ParseFloat(v.lit).h), err |-> NoError]
               [] OTHER -> [date |-> None, err |-> newError(key)]

\* AppendStrings skipping the elements that are not strings
RECURSIVE AppendStringsSkipping(_, _, _)
AppendStringsSkipping(a, key, cs) ==
    IF a = <<>> THEN [cs |-> cs, err |-> NoError]
    ELSE IF Head(a).t # "string" THEN AppendStringsSkipping(Tail(a), key, cs)
    ELSE AppendStringsSkipping(Tail(a), key, Append(cs, Head(a).s))

\* the loop of claims.go:81-87 over a []interface{}
RECURSIVE AppendStrings(_, _, _)
AppendStrings(a, key, cs) ==
    IF a = <<>> THEN [cs |-> cs, err |-> NoError]
    ELSE IF Head(a).t # "string" THEN [cs |-> <<>>, err |-> newError(key)]
    ELSE AppendStrings(Tail(a), key, Append(cs, Head(a).s))

\* MapClaims.parseClaimsString (claims.go:73-91); m[key] of an absent key
\* is the nil interface, which no case of the type switch matches
parseClaimsString(m, key) ==
    LET v == IF key \in DOMAIN m THEN m[key] ELSE Nil
    IN  CASE v.t = "string" -> [cs |-> <<v.s>>, err |-> NoError]
          [] v.t = "[]string" -> [cs |-> v.a, err |-> NoError]
          [] v.t = "[]interface{}" -> AppendStrings(v.a, key, <<>>)
          [] OTHER -> [cs |-> <<>>, err |-> NoError]

\* parseString taking a key that holds null for an absent key
parseStringNullAbsent(m, key) ==
    IF key \notin DOMAIN m \/ m[key].t = "nil" THEN [s |-> "", err |-> NoError]
    ELSE IF m[key].t # "string" THEN [s |-> "", err |-> newError(key)]
    ELSE [s |-> m[key].s, err |-> NoError]

\* MapClaims.parseString (claims.go:96-113)
parseString(m, key) ==
    IF key \notin DOMAIN m THEN [s |-> "", err |-> NoError]
    ELSE IF m[key].t # "string" THEN [s |-> "", err |-> newError(key)]
    ELSE [s |-> m[key].s, err |-> NoError]

\* the six getters of the jwt.Claims interface (claims.go:16-44)
GetExpirationTime(m) == parseNumericDate(m, "exp")
GetNotBefore(m) == parseNumericDate(m, "nbf")
GetIssuedAt(m) == parseNumericDate(m, "iat")
GetAudience(m) == parseClaimsString(m, "aud")
GetIssuer(m) == parseString(m, "iss")
GetSubject(m) == parseString(m, "sub")

\* some typed getter of the document reports ErrInvalidType
WrongShape(m) ==
    \/ GetExpirationTime(m).err # NoError
    \/ GetNotBefore(m).err # NoError
    \/ GetIssuedAt(m).err # NoError
    \/ GetAudience(m).err # NoError
    \/ GetIssuer(m).err # NoError
    \/ GetSubject(m).err # NoError

(***************************************************************************)
(* Messages (encode.go:23-71).                                             *)
(***************************************************************************)
\* Settings (encode.go:23-25)
Settings == [EnableErrorPort : BOOLEAN]

\* the options of the signing-method selector (encode.go:176-178)
SigningMethodOptions ==
    {"ES256", "ES384", "ES512", "HS256", "HS384", "HS512", "RS256", "RS384", "RS512", "None"}

\* selector values a request can carry: SigningMethod.Value is any string
\* (encode.go:33-36, 44-46); "PS256" stands for the values outside the options
Selectors == SigningMethodOptions \cup {"PS256"}

\* key texts: empty, a plain secret, PKCS#8 PEM private keys on P-256, P-384
\* and P-521, and a PKCS#8 PEM RSA private key
KeyTexts == {"", "secret", "pemEC256", "pemEC384", "pemEC521", "pemRSA"}

EmptyClaims == [k \in {} |-> Nil]

\* claims documents of requests: empty, standard and application-defined
\* claims, and standard claims of the wrong shape
SignClaims ==
    { EmptyClaims,
      [sub |-> Str("user1")],
      [sub |-> Str("user1"), role |-> Str("admin"), exp |-> F64(2000000001)],
      [exp |-> Str("abc")],
      [sub |-> F64(14), role |-> Str("admin")],
      [aud |-> Arr(<<Str("api"), F64(2)>>)] }

\* what decides the result of signing: (claims, method, key text)
SigningInputs == [signingMethod : Selectors, claims : SignClaims, key : KeyTexts]

\* Request (encode.go:61-66)
Request(context, si) ==
    [context |-> context, signingMethod |-> si.signingMethod, claims |-> si.claims, key |-> si.key]

\* Response (encode.go:68-71)
Response(context, token) == [context |-> context, token |-> token]

\* Error built without copying the context (its zero value)
ErrorWithoutContext(context, error) == [context |-> 0, error |-> error]

\* Error (encode.go:27-30)
Error(context, error) == [context |-> context, error |-> error]

(***************************************************************************)
(* golang-jwt/v5 as encode.go:112-144 calls it.                            *)
(***************************************************************************)
\* A signing method object jwt.SigningMethodXXX is named by its Alg():
\* "ES256", ..., "RS512", and "none" for jwt.SigningMethodNone.
Family(method) ==
    CASE method \in {"ES256", "ES384", "ES512"} -> "ECDSA"
      [] method \in {"HS256", "HS384", "HS512"} -> "HMAC"
      [] method \in {"RS256", "RS384", "RS512"} -> "RSA"
      [] method = "none" -> "none"

\* SigningMethodECDSA.CurveBits
CurveBits(method) ==
    CASE method = "ES256" -> 256 [] method = "ES384" -> 384 [] method = "ES512" -> 521

\* the curve size of the key a PEM text holds
KeyCurveBits(text) ==
    CASE text = "pemEC256" -> 256 [] text = "pemEC384" -> 384 [] text = "pemEC521" -> 521

\* jwt.ParseECPrivateKeyFromPEM: (*ecdsa.PrivateKey, error); the key is the
\* nil pointer whenever the error is not nil
ParseECPrivateKeyFromPEM(text) ==
    IF text \in {"pemEC256", "pemEC384", "pemEC521"}
    THEN [key |-> [t |-> "*ecdsa.PrivateKey", p |-> text], err |-> "nil"]
    ELSE IF text = "pemRSA"
    THEN [key |-> [t |-> "*ecdsa.PrivateKey", p |-> "nil"], err |-> "ErrNotECPrivateKey"]
    ELSE [key |-> [t |-> "*ecdsa.PrivateKey", p |-> "nil"], err |-> "ErrKeyMustBePEMEncoded"]

\* jwt.ParseRSAPrivateKeyFromPEM: (*rsa.PrivateKey, error)
ParseRSAPrivateKeyFromPEM(text) ==
    IF text = "pemRSA"
    THEN [key |-> [t |-> "*rsa.PrivateKey", p |-> text], err |-> "nil"]
    ELSE IF text \in {"pemEC256", "pemEC384", "pemEC521"}
    THEN [key |-> [t |-> "*rsa.PrivateKey", p |-> "nil"], err |-> "ErrNotRSAPrivateKey"]
    ELSE [key |-> [t |-> "*rsa.PrivateKey", p |-> "nil"], err |-> "ErrKeyMustBePEMEncoded"]

\* the errors the two PEM parsers report
KeyParseErrors == {"ErrKeyMustBePEMEncoded", "ErrNotECPrivateKey", "ErrNotRSAPrivateKey"}

\* the errors SigningMethod.Sign reports
SigningErrors == {"ErrInvalidKeyType", "ErrInvalidKey", "NoneSignatureTypeDisallowedError"}

\* []byte(in.Key)
SecretKey(text) == [t |-> "[]byte", b |-> Bytes(text)]

\* key interface{} as declared: the nil interface (encode.go:107)
NilKey == [t |-> "nil"]

RECURSIVE SumRange(_, _, _)
SumRange(bs, lo, hi) ==
    IF lo > hi THEN 0
    ELSE IF lo = hi THEN bs[lo]
    ELSE SumRange(bs, lo, (lo + hi) \div 2) + SumRange(bs, (lo + hi) \div 2 + 1, hi)

\* the sum of the bytes of bs
Sum(bs) == SumRange(bs, 1, Len(bs))

\* The signature primitives (HMAC-SHA2, RSASSA-PKCS1-v1_5, ECDSA) are
\* abstracted to a three-byte checksum that keeps what the component can
\* observe: the bytes are a function of the algorithm, the key and the
\* signing string, and for ECDSA of the random value drawn for the signature.
Checksum(method, keyBytes, sst, salt) ==
    <<(Sum(keyBytes) + salt) % 256, Sum(sst) % 256, Sum(Bytes(method)) % 256>>

\* Header of jwt.NewWithClaims: {"typ": "JWT", "alg": method.Alg()}
Header(method) == [alg |-> Str(method), typ |-> Str("JWT")]

\* Token.SigningString: EncodeSegment(json(header)) + "." + EncodeSegment(json(claims))
SigningString(method, claims) ==
    EncodeSegment(MarshalMap(Header(method))) \o <<46>> \o EncodeSegment(MarshalMap(claims))

\* Sign with a randomized RSA signature (RSASSA-PSS in place of PKCS1-v1_5)
SignRandomizedRSA(method, sst, key, nonce) ==
    LET ok(sig) == [sig |-> sig, err |-> "nil", panic |-> FALSE]
        fail(e) == [sig |-> <<>>, err |-> e, panic |-> FALSE]
        crash == [sig |-> <<>>, err |-> "nil", panic |-> TRUE]
    IN  CASE Family(method) = "HMAC" ->
                IF key.t = "[]byte" THEN ok(Checksum(method, key.b, sst, 0))
                ELSE fail("ErrInvalidKeyType")
          [] Family(method) = "ECDSA" ->
                IF key.t # "*ecdsa.PrivateKey" THEN fail("ErrInvalidKeyType")
                ELSE IF key.p = "nil" THEN crash
                ELSE IF KeyCurveBits(key.p) # CurveBits(method) THEN fail("ErrInvalidKey")
                ELSE ok(Checksum(method, Bytes(key.p), sst, nonce))
          [] Family(method) = "RSA" ->
                IF key.t # "*rsa.PrivateKey" THEN fail("ErrInvalidKeyType")
                ELSE IF key.p = "nil" THEN crash
                ELSE ok(Checksum(method, Bytes(key.p), sst, nonce))
          [] Family(method) = "none" ->
                IF key.t = "unsafeNoneMagicConstant" THEN ok(<<>>)
                ELSE fail("NoneSignatureTypeDisallowedError")

\* SigningMethod.Sign(signingString, key): the signature bytes, an error, or a
\* panic (a nil pointer dereference inside ecdsa.Sign / rsa.SignPKCS1v15 when
\* the key is a typed nil pointer, which passes Sign's type assertion)
Sign(method, sst, key, nonce) ==
    LET ok(sig) == [sig |-> sig, err |-> "nil", panic |-> FALSE]
        fail(e) == [sig |-> <<>>, err |-> e, panic |-> FALSE]
        crash == [sig |-> <<>>, err |-> "nil", panic |-> TRUE]
    IN  CASE Family(method) = "HMAC" ->
                IF key.t = "[]byte" THEN ok(Checksum(method, key.b, sst, 0))
                ELSE fail("ErrInvalidKeyType")
          [] Family(method) = "ECDSA" ->
                IF key.t # "*ecdsa.PrivateKey" THEN fail("ErrInvalidKeyType")
                ELSE IF key.p = "nil" THEN crash
                ELSE IF KeyCurveBits(key.p) # CurveBits(method) THEN fail("ErrInvalidKey")
                ELSE ok(Checksum(method, Bytes(key.p), sst, nonce))
          [] Family(method) = "RSA" ->
                IF key.t # "*rsa.PrivateKey" THEN fail("ErrInvalidKeyType")
                ELSE IF key.p = "nil" THEN crash
                ELSE ok(Checksum(method, Bytes(key.p), sst, 0))
          [] Family(method) = "none" ->
                IF key.t = "unsafeNoneMagicConstant" THEN ok(<<>>)
                ELSE fail("NoneSignatureTypeDisallowedError")

\* Token.SignedString(key): the compact token, or Sign's error
SignedString(method, claims, key, nonce) ==
    LET sst == SigningString(method, claims)
        s == Sign(method, sst, key, nonce)
    IN  IF s.panic THEN [token |-> <<>>, err |-> "nil", panic |-> TRUE]
        ELSE IF s.err # "nil" THEN [token |-> <<>>, err |-> s.err, panic |-> FALSE]
        ELSE [token |-> sst \o <<46>> \o EncodeSegment(s.sig), err |-> "nil", panic |-> FALSE]

(***************************************************************************)
(* Component.Handle, request port (encode.go:97-158).                      *)
(***************************************************************************)
\* the switch on in.SigningMethod.Value (encode.go:106-142): the method, the
\* key and the error of the key parser; no case matching leaves the
\* declared values (HS256, the nil key, no error)
Resolve(in) ==
    LET v == in.signingMethod
        ec == ParseECPrivateKeyFromPEM(in.key)
        rsa == ParseRSAPrivateKeyFromPEM(in.key)
    IN  CASE v \in {"ES256", "ES384", "ES512"} -> [method |-> v, key |-> ec.key, err |-> ec.err]
          [] v \in {"HS256", "HS384", "HS512"} ->
                [method |-> v, key |-> SecretKey(in.key), err |-> "nil"]
          [] v \in {"RS256", "RS384", "RS512"} -> [method |-> v, key |-> rsa.key, err |-> rsa.err]
          [] v = "None" -> [method |-> "none", key |-> NilKey, err |-> "nil"]
          [] OTHER -> [method |-> "HS256", key |-> NilKey, err |-> "nil"]

\* Signed validating the standard claims through the typed getters first
SignedValidated(in, nonce) ==
    LET r == Resolve(in)
    IN  IF WrongShape(in.claims) THEN [token |-> <<>>, err |-> "ErrInvalidType", panic |-> FALSE]
        ELSE SignedString(r.method, in.claims, r.key, nonce)

\* Signed consulting the component's settings: refusing to sign while the
\* error port is enabled
SignedUnderSettings(in, nonce) ==
    LET r == Resolve(in)
    IN  IF settings.EnableErrorPort THEN [token |-> <<>>, err |-> "ErrInvalidKey", panic |-> FALSE]
        ELSE SignedString(r.method, in.claims, r.key, nonce)

\* token, err := jwt.NewWithClaims(method, in.Claims).SignedString(key)
\* (encode.go:144): err is the variable of encode.go:109, so the key
\* parser's error is overwritten, never tested
Signed(in, nonce) ==
    LET r == Resolve(in) IN SignedString(r.method, in.claims, r.key, nonce)

\* what the handler callback returns to Handle
HandlerResults == {"nil", "handler error"}

\* a completed Handle call as its caller observes it: the port and the
\* message (None when it is not of the port's type), the messages handed to
\* the handler, and Handle's return value unless it panicked
Outcome(port, in, sent, ret, panicked) ==
    [port |-> port, in |-> in, sent |-> sent, ret |-> ret, panicked |-> panicked]

\* the observation of one more completed call
Observe(o) == last' = o /\ prev' = last

\* encode.go:97-144: the type assertion succeeded; resolve, sign.  A panic
\* unwinds Handle there and then.
RequestSign(context, nonce) ==
    /\ call.pc = "idle"
    /\ LET in == Request(context, input)
           s == Signed(in, nonce)
       IN  IF s.panic
           THEN /\ call' = call
                /\ Observe(Outcome("request", in, <<>>, "nil", TRUE))
           ELSE /\ call' = [pc |-> "signed", in |-> in, token |-> s.token, err |-> s.err]
                /\ UNCHANGED <<last, prev>>
    /\ UNCHANGED <<settings, input, doc, got>>

\* encode.go:145-158: route the result; hres is what the handler returns
RequestRoute(hres) ==
    /\ call.pc = "signed"
    /\ LET in == call.in
       IN  Observe(
             IF call.err # "nil"
             THEN IF ~settings.EnableErrorPort
                  THEN Outcome("request", in, <<>>, call.err, FALSE)
                  ELSE Outcome("request", in,
                               <<[port |-> "error", msg |-> Error(in.context, call.err)]>>,
                               hres, FALSE)
             ELSE Outcome("request", in,
                          <<[port |-> "response", msg |-> Response(in.context, call.token)]>>,
                          hres, FALSE))
    /\ call' = [pc |-> "idle"]
    /\ UNCHANGED <<settings, input, doc, got>>

\* encode.go:101-104: the message on the request port is not a Request
RequestInvalid ==
    /\ Observe(Outcome("request", None, <<>>, "invalid input", FALSE))
    /\ UNCHANGED <<settings, input, call, doc, got>>

(***************************************************************************)
(* Component.Handle, the other ports (encode.go:88-96, 159-162).           *)
(***************************************************************************)
\* encode.go:89-95 with a Settings message: h.settings = in, return nil (the
\* call is observed through settings)
HandleSettings(in) ==
    /\ settings' = in
    /\ UNCHANGED <<input, call, last, prev, doc, got>>

\* encode.go:91-94: the message on the settings port is not a Settings
HandleSettingsInvalid ==
    /\ Observe(Outcome("settings", None, <<>>, "invalid settings", FALSE))
    /\ UNCHANGED <<settings, input, call, doc, got>>

\* encode.go:159-160: any other port
HandleOtherPort ==
    /\ Observe(Outcome("other", None, <<>>, "port is not supoprted", FALSE))
    /\ UNCHANGED <<settings, input, call, doc, got>>

\* Component.Ports (encode.go:165-205): the names of the ports listed, the
\* error port last and only while h.settings.EnableErrorPort
Ports ==
    <<"request", "response", "settings">>
        \o (IF ~settings.EnableErrorPort THEN <<>> ELSE <<"error">>)

\* Component.Instance (encode.go:207-211); the signing input of the
\* requests to come is any of SigningInputs
Init ==
    /\ settings = [EnableErrorPort |-> FALSE]
    /\ input \in SigningInputs
    /\ call = [pc |-> "idle"]
    /\ last = None
    /\ prev = None
    /\ doc = EmptyClaims
    /\ got = None

\* the messages of one instance, in any interleaving, with a handler that
\* accepts every message it is handed
Next ==
    \/ \E context \in Contexts, nonce \in Nonces : RequestSign(context, nonce)
    \/ RequestRoute("nil")
    \/ RequestInvalid
    \/ \E in \in Settings : HandleSettings(in)
    \/ HandleSettingsInvalid
    \/ HandleOtherPort

Spec == Init /\ [][Next]_vars

\* the same with a handler that may fail on any message
NextHandler ==
    \/ Next
    \/ \E hres \in HandlerResults : RequestRoute(hres)

SpecHandler == Init /\ [][NextHandler]_vars

(***************************************************************************)
(* The typed getters applied to a claims document.                         *)
(***************************************************************************)
\* documents hold at most MaxClaims of the standard claims
MaxClaims == 2

StandardClaims == {"exp", "nbf", "iat", "aud", "iss", "sub"}

\* values of every dynamic type a map[string]interface{} can hold
GetterValues ==
    { F64(0), F64(3), F64(-3), F64(2000000001), JNum("0"), JNum("1.5"), JNum("abc"),
      GoInt(0), GoInt(5), Str(""), Str("api"), Bool(TRUE), Nil,
      StrArr(<<"a", "b">>), Arr(<<Str("a"), Str("b")>>), Arr(<<Str("a"), F64(2)>>),
      Arr(<<F64(2), F64(4)>>), Arr(<<>>), Obj([k \in {"a"} |-> Str("b")]) }

GetterDocs ==
    UNION {[D -> GetterValues] : D \in {K \in SUBSET StandardClaims : Cardinality(K) <= MaxClaims}}

GetterNames ==
    {"GetExpirationTime", "GetNotBefore", "GetIssuedAt", "GetAudience", "GetIssuer", "GetSubject"}

\* the claim key a getter reads (claims.go:16-44)
KeyOf(getter) ==
    CASE getter = "GetExpirationTime" -> "exp"
      [] getter = "GetNotBefore" -> "nbf"
      [] getter = "GetIssuedAt" -> "iat"
      [] getter = "GetAudience" -> "aud"
      [] getter = "GetIssuer" -> "iss"
      [] getter = "GetSubject" -> "sub"

CallNumericDate(getter) ==
    /\ getter \in {"GetExpirationTime", "GetNotBefore", "GetIssuedAt"}
    /\ got' = [getter |-> getter,
               r |-> CASE getter = "GetExpirationTime" -> GetExpirationTime(doc)
                       [] getter = "GetNotBefore" -> GetNotBefore(doc)
                       [] getter = "GetIssuedAt" -> GetIssuedAt(doc)]
    /\ UNCHANGED <<settings, input, call, last, prev, doc>>

CallAudience ==
    /\ got' = [getter |-> "GetAudience", r |-> GetAudience(doc)]
    /\ UNCHANGED <<settings, input, call, last, prev, doc>>

CallString(getter) ==
    /\ getter \in {"GetIssuer", "GetSubject"}
    /\ got' = [getter |-> getter,
               r |-> IF getter = "GetIssuer" THEN GetIssuer(doc) ELSE GetSubject(doc)]
    /\ UNCHANGED <<settings, input, call, last, prev, doc>>

InitClaims ==
    /\ settings = [EnableErrorPort |-> FALSE]
    /\ input = [signingMethod |-> "HS256", claims |-> EmptyClaims, key |-> ""]
    /\ call = [pc |-> "idle"]
    /\ last = None
    /\ prev = None
    /\ doc \in GetterDocs
    /\ got = None

NextClaims ==
    \/ \E getter \in GetterNames : CallNumericDate(getter)
    \/ CallAudience
    \/ \E getter \in GetterNames : CallString(getter)

SpecClaims == InitClaims /\ [][NextClaims]_vars

(***************************************************************************)
(* Reading an observation.                                                 *)
(***************************************************************************)
\* o is a completed signing request
Signing(o) == o # None /\ o.port = "request" /\ o.in # None

\* o handed a token to the handler on the response port
EmittedToken(o) == Len(o.sent) = 1 /\ o.sent[1].port = "response"

\* o handed an error to the handler on the error port
EmittedError(o) == Len(o.sent) = 1 /\ o.sent[1].port = "error"

\* the signing error o reported, emitted or returned; "nil" when none
ReportedError(o) ==
    IF EmittedError(o) THEN o.sent[1].msg.error
    ELSE IF o.sent = <<>> /\ ~o.panicked THEN o.ret
    ELSE "nil"

TokenOf(o) == o.sent[1].msg.token

\* strings.Split(token, "."): the text between consecutive "." characters
Segments(token) ==
    LET dots == {i \in 1..Len(token) : token[i] = 46}
        n == Cardinality(dots)
        pos(k) == CHOOSE i \in dots : Cardinality({j \in dots : j < i}) = k - 1
        first(k) == IF k = 1 THEN 1 ELSE pos(k - 1) + 1
        final(k) == IF k = n + 1 THEN Len(token) ELSE pos(k) - 1
    IN  [k \in 1..(n + 1) |-> SubSeq(token, first(k), final(k))]

(***************************************************************************)
(* Reading a token back, as a consumer does: split on ".", base64url       *)
(* decoding (DecodeSegment above) and encoding/json.Unmarshal into a       *)
(* map[string]interface{}: numbers become float64, arrays []interface{}.   *)
(* Each parser returns the value read and the bytes left, or a failure.    *)
(***************************************************************************)
ParseFail == [ok |-> FALSE]

\* the string literal whose bytes are bs
StringOf(bs) == CHOOSE s \in DOMAIN StringBytes : StringBytes[s] = bs

RECURSIVE UpTo(_, _)
\* the bytes of bs before the first byte b (all of bs when there is none)
UpTo(bs, b) == IF bs = <<>> \/ Head(bs) = b THEN <<>> ELSE <<Head(bs)>> \o UpTo(Tail(bs), b)

RECURSIVE DigitRun(_)
DigitRun(bs) ==
    IF bs = <<>> \/ Head(bs) \notin 48..57 THEN <<>> ELSE <<Head(bs)>> \o DigitRun(Tail(bs))

RECURSIVE Decimal(_, _)
\* the natural number a run of digits denotes
Decimal(ds, acc) == IF ds = <<>> THEN acc ELSE Decimal(Tail(ds), 10 * acc + (Head(ds) - 48))

Drop(bs, n) == SubSeq(bs, n + 1, Len(bs))

\* a JSON string without escapes, at the opening quote
ParseString(bs) ==
    LET body == UpTo(Tail(bs), 34)
    IN  IF Len(body) + 2 > Len(bs) \/ \A s \in DOMAIN StringBytes : StringBytes[s] # body
        THEN ParseFail
        ELSE [ok |-> TRUE, v |-> StringOf(body), rest |-> Drop(bs, Len(body) + 2)]

\* a JSON number with at most the fraction .5, as a float64 in halves
ParseNumber(bs) ==
    LET neg == Head(bs) = 45
        b1 == IF neg THEN Tail(bs) ELSE bs
        int == DigitRun(b1)
        b2 == Drop(b1, Len(int))
        half == Len(b2) >= 2 /\ b2[1] = 46 /\ b2[2] = 53
        mag == 2 * Decimal(int, 0) + (IF half THEN 1 ELSE 0)
    IN  IF int = <<>> THEN ParseFail
        ELSE [ok |-> TRUE, v |-> F64(IF neg THEN -mag ELSE mag),
              rest |-> IF half THEN Drop(b2, 2) ELSE b2]

HasPrefix(bs, pre) == Len(bs) >= Len(pre) /\ SubSeq(bs, 1, Len(pre)) = pre

RECURSIVE ParseValue(_)
RECURSIVE ParseElements(_, _)

\* the elements of an array after "[" or ",", up to and including "]"
ParseElements(bs, acc) ==
    LET e == ParseValue(bs)
    IN  IF ~e.ok \/ e.rest = <<>> THEN ParseFail
        ELSE IF Head(e.rest) = 93
             THEN [ok |-> TRUE, v |-> Arr(Append(acc, e.v)), rest |-> Tail(e.rest)]
        ELSE IF Head(e.rest) = 44 THEN ParseElements(Tail(e.rest), Append(acc, e.v))
        ELSE ParseFail

ParseValue(bs) ==
    IF bs = <<>> THEN ParseFail
    ELSE IF Head(bs) = 34
         THEN LET r == ParseString(bs)
              IN  IF r.ok THEN [ok |-> TRUE, v |-> Str(r.v), rest |-> r.rest] ELSE ParseFail
    ELSE IF Head(bs) = 45 \/ Head(bs) \in 48..57 THEN ParseNumber(bs)
    ELSE IF HasPrefix(bs, <<116, 114, 117, 101>>)
         THEN [ok |-> TRUE, v |-> Bool(TRUE), rest |-> Drop(bs, 4)]
    ELSE IF HasPrefix(bs, <<102, 97, 108, 115, 101>>)
         THEN [ok |-> TRUE, v |-> Bool(FALSE), rest |-> Drop(bs, 5)]
    ELSE IF HasPrefix(bs, <<110, 117, 108, 108>>)
         THEN [ok |-> TRUE, v |-> Nil, rest |-> Drop(bs, 4)]
    ELSE IF HasPrefix(bs, <<91, 93>>) THEN [ok |-> TRUE, v |-> Arr(<<>>), rest |-> Drop(bs, 2)]
    ELSE IF Head(bs) = 91 THEN ParseElements(Tail(bs), <<>>)
    ELSE ParseFail

RECURSIVE ParseMembers(_, _)
\* the members of an object after "{" or ",", up to and including "}"
ParseMembers(bs, acc) ==
    IF bs = <<>> \/ Head(bs) # 34 THEN ParseFail
    ELSE LET k == ParseString(bs)
         IN  IF ~k.ok \/ k.rest = <<>> \/ Head(k.rest) # 58 \/ k.v \in DOMAIN acc THEN ParseFail
             ELSE LET e == ParseValue(Tail(k.rest))
                      m == acc @@ (k.v :> e.v)
                  IN  IF ~e.ok \/ e.rest = <<>> THEN ParseFail
                      ELSE IF Head(e.rest) = 125
                           THEN [ok |-> TRUE, v |-> m, rest |-> Tail(e.rest)]
                      ELSE IF Head(e.rest) = 44 THEN ParseMembers(Tail(e.rest), m)
                      ELSE ParseFail

\* json.Unmarshal(bs, &m) for m a map[string]interface{}: the map, or a failure
Unmarshal(bs) ==
    IF HasPrefix(bs, <<123, 125>>)
    THEN IF Len(bs) = 2 THEN [ok |-> TRUE, v |-> EmptyClaims] ELSE ParseFail
    ELSE IF bs = <<>> \/ Head(bs) # 123 THEN ParseFail
    ELSE LET r == ParseMembers(Tail(bs), EmptyClaims)
         IN  IF r.ok /\ r.rest = <<>> THEN [ok |-> TRUE, v |-> r.v] ELSE ParseFail

\* the map a token segment decodes to
DecodedSegment(seg) == Unmarshal(DecodeSegment(seg))

(***************************************************************************)
(* C1.  For every signing method except None, a request whose key text the *)
(* method's key parser rejects ends with the key-parse error as its        *)
(* reported outcome, and never with a token or any partial output.         *)
(* The code overwrites the parser's error at encode.go:144 and signs with  *)
(* the nil key: the statement below is violated.                           *)
(***************************************************************************)
C1_KeyParseErrorReported ==
    (/\ Signing(last)
     /\ last.in.signingMethod \in SigningMethodOptions \ {"None"}
     /\ Resolve(last.in).err # "nil")
    => /\ ~last.panicked
       /\ ReportedError(last) = Resolve(last.in).err
       /\ ReportedError(last) \in KeyParseErrors
       /\ ~EmittedToken(last)

(***************************************************************************)
(* C2.  A request with method None succeeds for any key text and any       *)
(* claims document: no error is reported and a token whose signature       *)
(* segment is empty is emitted on the response port.                       *)
(* The code signs with the nil key, which SigningMethodNone.Sign refuses:  *)
(* the statement below is violated.                                        *)
(***************************************************************************)
C2_NoneSucceeds ==
    (Signing(last) /\ last.in.signingMethod = "None")
    => /\ ~last.panicked
       /\ ReportedError(last) = "nil"
       /\ EmittedToken(last)
       /\ Len(Segments(TokenOf(last))) = 3
       /\ Segments(TokenOf(last))[3] = <<>>

(***************************************************************************)
(* C3.  A request whose selector is not one of the ten options is          *)
(* processed with the HS256 fallback: its outcome equals the outcome of    *)
(* the same request with the selector HS256.                               *)
(* The fallback keeps the nil key, which SigningMethodHMAC.Sign refuses:   *)
(* the statement below is violated.                                        *)
(***************************************************************************)
C3_UnknownSelectorAsHS256 ==
    (Signing(last) /\ last.in.signingMethod \notin SigningMethodOptions)
    => LET hs == Signed([last.in EXCEPT !.signingMethod = "HS256"], 0)
       IN  /\ last.panicked = hs.panic
           /\ ReportedError(last) = hs.err
           /\ EmittedToken(last) = (hs.err = "nil" /\ ~hs.panic)
           /\ EmittedToken(last) => TokenOf(last) = hs.token

(***************************************************************************)
(* C4.  As claimed: a request whose claims document holds a standard claim *)
(* of the wrong shape fails with ErrInvalidType and emits no token.        *)
(* SignedString never calls the typed getters, so this is violated.        *)
(***************************************************************************)
C4_WrongShapeRejected ==
    (Signing(last) /\ ~last.panicked /\ WrongShape(last.in.claims))
    => ReportedError(last) = "ErrInvalidType" /\ ~EmittedToken(last)

\* C4, amended.  A wrong-shaped standard claim plays no part in signing: the
\* request never reports ErrInvalidType, it ends as the same request with a
\* well-formed document ends (panic, error or token, decided by method and
\* key), and an emitted token carries the document, wrong-shaped value
\* included, in its payload segment.
C4_WrongShapeSignedVerbatim ==
    (Signing(last) /\ WrongShape(last.in.claims))
    => LET ref == Signed([last.in EXCEPT !.claims = EmptyClaims], 0)
       IN  /\ ReportedError(last) # "ErrInvalidType"
           /\ last.panicked = ref.panic
           /\ ReportedError(last) = ref.err
           /\ EmittedToken(last) = (ref.err = "nil" /\ ~ref.panic)
           /\ EmittedToken(last) =>
                 DecodedSegment(Segments(TokenOf(last))[2]) = [ok |-> TRUE, v |-> last.in.claims]

C4_Witness ==
    /\ Signing(last)
    /\ WrongShape(last.in.claims)
    /\ "exp" \in DOMAIN last.in.claims
    /\ EmittedToken(last)

(***************************************************************************)
(* C5.  As claimed: two signing requests with identical (claims, method,   *)
(* key text) yield the same outcome and, when it is a token, the same      *)
(* token.  ecdsa.Sign draws a random value for every signature, so this is *)
(* violated for ES256, ES384 and ES512.                                    *)
(***************************************************************************)
SameSigningInput(a, b) ==
    a.claims = b.claims /\ a.signingMethod = b.signingMethod /\ a.key = b.key

BothSigning ==
    Signing(last) /\ Signing(prev) /\ SameSigningInput(last.in, prev.in)

SameResult(a, b) ==
    /\ a.panicked = b.panicked
    /\ ReportedError(a) = ReportedError(b)
    /\ EmittedToken(a) = EmittedToken(b)

C5_Deterministic ==
    BothSigning
    => /\ SameResult(last, prev)
       /\ EmittedToken(last) /\ EmittedToken(prev) => TokenOf(last) = TokenOf(prev)

\* C5, amended.  Two signing requests with identical (claims, method, key
\* text) end the same way (both panic, or both report the same error, or both
\* emit a token); the two tokens have the same header and payload segments,
\* and are identical unless the method is ES256, ES384 or ES512, whose
\* signature segment depends on the random value ecdsa.Sign draws.
C5_DeterministicButECDSA ==
    BothSigning
    => /\ SameResult(last, prev)
       /\ EmittedToken(last) /\ EmittedToken(prev) =>
             /\ SubSeq(Segments(TokenOf(last)), 1, 2) = SubSeq(Segments(TokenOf(prev)), 1, 2)
             /\ Family(Resolve(last.in).method) # "ECDSA" => TokenOf(last) = TokenOf(prev)

C5_Witness ==
    /\ BothSigning
    /\ EmittedToken(last) /\ EmittedToken(prev)
    /\ Family(Resolve(last.in).method) = "ECDSA"
    /\ TokenOf(last) # TokenOf(prev)

(***************************************************************************)
(* C6.  Every emitted token is three "."-separated segments of unpadded    *)
(* base64url text; the first decodes to {alg: <the selected method>,       *)
(* typ: "JWT"} and the second to the request's claims document, every key  *)
(* and value as supplied.                                                  *)
(***************************************************************************)
C6_TokenFormat ==
    (Signing(last) /\ EmittedToken(last))
    => LET seg == Segments(TokenOf(last))
       IN  /\ Len(seg) = 3
           /\ \A i \in 1..3 : \A j \in 1..Len(seg[i]) : seg[i][j] \in URLAlphabet
           /\ DecodedSegment(seg[1]) = [ok |-> TRUE, v |-> Header(last.in.signingMethod)]
           /\ DecodedSegment(seg[2]) = [ok |-> TRUE, v |-> last.in.claims]

C6_Witness ==
    /\ Signing(last)
    /\ EmittedToken(last)
    /\ last.in.signingMethod = "ES384"
    /\ DOMAIN last.in.claims = {"sub", "role", "exp"}

(***************************************************************************)
(* C7.  As claimed: every signing request, failing or not and whatever the *)
(* settings, has its context echoed back alongside the result.  A failure  *)
(* with the error port disabled is returned from Handle as the bare error  *)
(* (encode.go:146-147), so this is violated (stated here for the requests  *)
(* that do not panic).                                                     *)
(***************************************************************************)
C7_ContextEchoed ==
    (Signing(last) /\ ~last.panicked)
    => \E i \in 1..Len(last.sent) : last.sent[i].msg.context = last.in.context

\* C7, amended.  Every message a signing request hands to the handler, on the
\* response port or on the error port, carries the request's context
\* unchanged, and there is at most one; a request that hands over nothing
\* panicked or returned its signing error from Handle, without the context.
C7_EmittedContextUnchanged ==
    Signing(last)
    => /\ Len(last.sent) <= 1
       /\ \A i \in 1..Len(last.sent) : last.sent[i].msg.context = last.in.context
       /\ last.sent = <<>> => last.panicked \/ last.ret \in SigningErrors

C7_Witness ==
    /\ Signing(last)
    /\ EmittedError(last)
    /\ last.in.context = MaxContext

(***************************************************************************)
(* C8.  Every signing request has exactly one outcome: one response        *)
(* message carrying a complete token, or one error, emitted or returned;   *)
(* a failing request emits nothing on the response port.                   *)
(* A request whose key the parser rejected panics inside Sign (see C1):    *)
(* it has neither outcome, and the statement below is violated.            *)
(***************************************************************************)
C8_AllOrNothing ==
    Signing(last)
    => /\ ~last.panicked
       /\ Len(last.sent) <= 1
       /\ EmittedToken(last) \/ ReportedError(last) # "nil"
       /\ ~(EmittedToken(last) /\ ReportedError(last) # "nil")
       /\ EmittedToken(last) => Len(Segments(TokenOf(last))) = 3

(***************************************************************************)
(* C9.  As claimed: the outcome of a signing request depends only on its   *)
(* own (claims, method, key text, context), whatever other messages the    *)
(* instance handles.  Where a failure goes is decided by h.settings, which *)
(* settings messages write, so two identical requests can differ.          *)
(***************************************************************************)
Delivery(o) ==
    IF o.panicked THEN "panic"
    ELSE IF EmittedToken(o) THEN "response port"
    ELSE IF EmittedError(o) THEN "error port"
    ELSE "returned"

C9_OutcomeOfOwnInputsOnly ==
    (Signing(last) /\ Signing(prev) /\ last.in = prev.in)
    => Delivery(last) = Delivery(prev)

\* C9, amended.  What signing produces (the token or the error) depends only
\* on the request's own (claims, method, key text) and, for ES256/384/512, on
\* the random value of the signature; the component is not stateless: a
\* failure is returned from Handle or emitted on the error port according to
\* h.settings as the call reads it after signing (encode.go:146), which a
\* settings message handled in between has written.
C9_StatelessSigningSettingsRouting ==
    [][(\E hres \in HandlerResults : RequestRoute(hres))
        => /\ \E n \in Nonces :
                LET s == Signed(call.in, n)
                IN  ~s.panic /\ s.err = call.err /\ s.token = call.token
           /\ call.err # "nil" =>
                /\ EmittedError(last') = settings.EnableErrorPort
                /\ ~EmittedToken(last')
                /\ ReportedError(last') = call.err
           /\ call.err = "nil" => EmittedToken(last') /\ TokenOf(last') = call.token]_vars

C9_Witness ==
    /\ Signing(last) /\ Signing(prev)
    /\ last.in = prev.in
    /\ Delivery(prev) = "returned"
    /\ Delivery(last) = "error port"

(***************************************************************************)
(* C10.  numericDate(key), for exp, nbf and iat: absent without error for  *)
(* a missing key and for a numeric zero in any representation; for any     *)
(* other number the timestamp of its truncated integer part in seconds and *)
(* its truncated fraction in nanoseconds; ErrInvalidType naming the key    *)
(* for a value that is not a number.                                       *)
(* parseNumericDate tests for zero in the float64 case only, so a          *)
(* json.Number zero yields the epoch: the statement below is violated.     *)
(***************************************************************************)
\* v is a number: a float64, an integer, or a json.Number whose literal parses
IsNumber(v) ==
    \/ v.t \in {"float64", "int"}
    \/ v.t = "json.Number" /\ ParseFloat(v.lit).ok

\* the number v in halves
Halves(v) ==
    CASE v.t = "float64" -> v.h
      [] v.t = "int" -> 2 * v.i
      [] v.t = "json.Number" -> ParseFloat(v.lit).h

C10_NumericDate ==
    (got # None /\ got.getter \in {"GetExpirationTime", "GetNotBefore", "GetIssuedAt"})
    => LET key == KeyOf(got.getter)
           absent == [date |-> None, err |-> NoError]
       IN  IF key \notin DOMAIN doc THEN got.r = absent
           ELSE IF ~IsNumber(doc[key]) THEN got.r = [date |-> None, err |-> newError(key)]
           ELSE IF Halves(doc[key]) = 0 THEN got.r = absent
           ELSE LET h == Halves(doc[key])
                    whole == Trunc(h, 2)
                IN  got.r = [date |-> [sec |-> whole,
                                       nsec |-> Trunc((h - 2 * whole) * 1000000000, 2)],
                             err |-> NoError]

(***************************************************************************)
(* C11.  audience(key), for aud: the one-element sequence [s] for a string *)
(* s; the same elements in the same order for a sequence of strings;       *)
(* ErrInvalidType naming the key and no sequence for a sequence with an    *)
(* element that is not a string, at any position; the empty sequence       *)
(* without error when the key is absent.                                   *)
(***************************************************************************)
\* v is a sequence: a []string or a []interface{}
IsSequence(v) == v.t \in {"[]string", "[]interface{}"}

\* every element of the sequence v is a string
AllStrings(v) == v.t = "[]string" \/ \A i \in 1..Len(v.a) : v.a[i].t = "string"

\* the elements of a sequence of strings, as Go strings
Elements(v) == IF v.t = "[]string" THEN v.a ELSE [i \in 1..Len(v.a) |-> v.a[i].s]

C11_Audience ==
    (got # None /\ got.getter = "GetAudience")
    => IF "aud" \notin DOMAIN doc THEN got.r = [cs |-> <<>>, err |-> NoError]
       ELSE LET v == doc["aud"]
            IN  /\ v.t = "string" => got.r = [cs |-> <<v.s>>, err |-> NoError]
                /\ (IsSequence(v) /\ AllStrings(v))
                      => got.r = [cs |-> Elements(v), err |-> NoError]
                /\ (IsSequence(v) /\ ~AllStrings(v))
                      => got.r = [cs |-> <<>>, err |-> newError("aud")]

\* GetAudience has rejected a sequence whose second element is not a string
C11_Witness ==
    /\ got # None /\ got.getter = "GetAudience"
    /\ "aud" \in DOMAIN doc /\ doc["aud"] = Arr(<<Str("a"), F64(2)>>)
    /\ got.r = [cs |-> <<>>, err |-> newError("aud")]

(***************************************************************************)
(* C12.  stringClaim(key), for iss and sub: the empty string without error *)
(* when the key is absent; the stored string unchanged, the empty string   *)
(* included, when the value is a string; ErrInvalidType naming the key     *)
(* when the key is present with a value of any other type.                 *)
(***************************************************************************)
C12_StringClaim ==
    (got # None /\ got.getter \in {"GetIssuer", "GetSubject"})
    => LET key == KeyOf(got.getter)
       IN  IF key \notin DOMAIN doc THEN got.r = [s |-> "", err |-> NoError]
           ELSE IF doc[key].t = "string" THEN got.r = [s |-> doc[key].s, err |-> NoError]
           ELSE got.r = [s |-> "", err |-> newError(key)]

\* GetSubject has rejected a sub that is present and null
C12_Witness ==
    /\ got # None /\ got.getter = "GetSubject"
    /\ "sub" \in DOMAIN doc /\ doc["sub"] = Nil
    /\ got.r = [s |-> "", err |-> newError("sub")]

(***************************************************************************)
(* C13.  No typed getter infers a value silently: a claim that is present  *)
(* with a value of a type its getter does not support yields               *)
(* ErrInvalidType naming the key, and a getter returns no value without an *)
(* error only for an absent key, for a zero numeric date, and for a stored *)
(* value that is itself empty (the empty string, the empty sequence).      *)
(* parseClaimsString has no default case in its type switch, so aud        *)
(* holding a number, a boolean, null or an object yields the empty         *)
(* sequence and no error: the statement below is violated.                 *)
(***************************************************************************)
\* the getter supports values of v's type
Supported(getter, v) ==
    CASE getter \in {"GetExpirationTime", "GetNotBefore", "GetIssuedAt"} -> IsNumber(v)
      [] getter = "GetAudience" -> v.t = "string" \/ IsSequence(v)
      [] getter \in {"GetIssuer", "GetSubject"} -> v.t = "string"

\* the result r of the getter carries no value
NoValue(getter, r) ==
    CASE getter \in {"GetExpirationTime", "GetNotBefore", "GetIssuedAt"} -> r.date = None
      [] getter = "GetAudience" -> r.cs = <<>>
      [] getter \in {"GetIssuer", "GetSubject"} -> r.s = ""

\* v is the zero date, the empty sequence or the empty string
EmptyValue(v) ==
    \/ IsNumber(v) /\ Halves(v) = 0
    \/ IsSequence(v) /\ v.a = <<>>
    \/ v = Str("")

C13_NoSilentInference ==
    got # None
    => LET key == KeyOf(got.getter)
       IN  /\ (key \in DOMAIN doc /\ ~Supported(got.getter, doc[key]))
                 => (got.r.err = newError(key) /\ NoValue(got.getter, got.r))
           /\ (got.r.err = NoError /\ NoValue(got.getter, got.r))
                 => (key \notin DOMAIN doc
                       \/ (Supported(got.getter, doc[key]) /\ EmptyValue(doc[key])))

(***************************************************************************)
(* C14.  After any sequence of settings and request messages handled by    *)
(* one instance, a failing signing request is routed by the settings most  *)
(* recently accepted: while EnableErrorPort is false the error is returned *)
(* from Handle and the handler is not invoked; while it is true the        *)
(* handler is invoked exactly once, on the error port, with the request's  *)
(* context and the error text, and Handle returns the handler's result.  A *)
(* settings message of the wrong type returns an error and leaves the      *)
(* settings unchanged, an accepted one replaces them, and Ports lists the  *)
(* error port exactly when EnableErrorPort is true.                        *)
(* A request whose key text the parser rejects fails by panicking inside   *)
(* Sign (C1): nothing is returned and the handler is not invoked, whatever *)
(* the settings, so the statement below is violated.                       *)
(***************************************************************************)
\* signing the request in fails: it yields no token
Fails(in, nonce) == LET s == Signed(in, nonce) IN s.panic \/ s.err # "nil"

\* o is the outcome the settings s and the handler result hres require for
\* the failing request in
RoutedBy(s, o, in, hres) ==
    /\ o.port = "request" /\ o.in = in /\ ~o.panicked
    /\ IF ~s.EnableErrorPort
       THEN o.sent = <<>> /\ o.ret \in KeyParseErrors \cup SigningErrors
       ELSE /\ Len(o.sent) = 1
            /\ o.sent[1].port = "error"
            /\ o.sent[1].msg.context = in.context
            /\ o.sent[1].msg.error \in KeyParseErrors \cup SigningErrors
            /\ o.ret = hres

C14_RoutedByLatestSettings ==
    [][ /\ \A context \in Contexts, nonce \in Nonces :
             (RequestSign(context, nonce) /\ call'.pc = "idle"
                 /\ Fails(Request(context, input), nonce))
             => \E hres \in HandlerResults :
                    RoutedBy(settings, last', Request(context, input), hres)
        /\ \A hres \in HandlerResults :
             (RequestRoute(hres) /\ call.err # "nil")
             => RoutedBy(settings, last', call.in, hres)
        /\ HandleSettingsInvalid
             => (settings' = settings /\ last'.ret # "nil" /\ last'.sent = <<>>)
        /\ \A in \in Settings : HandleSettings(in) => settings' = in
        /\ ("error" \in {Ports[i] : i \in 1..Len(Ports)}) <=> settings.EnableErrorPort
      ]_vars

====
